---- MODULE Spec2Model ----
(***************************************************************************)
(* behave_webdriver.BehaveDriver.wait_for_element_condition: the bounded   *)
(* polling wait that resolves a condition phrase to an expected-condition  *)
(* factory and polls it through WebDriverWait.until.                       *)
(*                                                                         *)
(* Python values are tagged records, so that truth testing (`if not ms`,   *)
(* `x or 1.5`, `if condition`, `bool(negative)`) is computed as Python     *)
(* computes it.  Durations are integers in thousandths of a second; the    *)
(* clock `now` is time.time() measured from the moment of the call.        *)
(***************************************************************************)
EXTENDS Integers, Sequences, FiniteSets, TLC

VARIABLES
    default_wait,   \* BehaveDriver.default_wait (seconds, in thousandths)
    driver,         \* what the live session reports for the waited element
    pc,             \* "idle" | "poll" | "sleep" | "done" | "raised"
    element,        \* argument: the selector, a sequence of characters
    ms,             \* argument: the timeout in milliseconds, or None
    negative,       \* argument: the polarity value as passed
    condition,      \* argument: the condition phrase, or None
    seconds,        \* local: the resolved wait duration (thousandths)
    expected,       \* local: the resolved factory
    locator,        \* local: <<by, selector>>
    end_time,       \* WebDriverWait.until: the deadline
    now,            \* the clock, from the start of the call
    result,         \* the value returned
    exc,            \* the exception that left the call, or NoExc
    polls,          \* history: the predicate evaluations of this call
    sleeps,         \* history: the polling sleeps of this call
    undLog,         \* history: the underlying condition's changes in time
    timed_out,      \* history: until() raised TimeoutException in this call
    nchg,           \* history: session changes during this call
    calls,          \* history: the calls made so far
    by              \* argument of get_element: the locating method, or None

vars == <<default_wait, driver, pc, element, ms, negative, condition, seconds,
          expected, locator, end_time, now, result, exc, polls, sleeps,
          undLog, timed_out, nchg, calls, by>>

(***************************************************************************)
(* Bounds of the model.                                                    *)
(***************************************************************************)
MaxChanges == 1         \* session changes during one wait
MaxCalls == 2           \* calls made one after the other on one BehaveDriver

(***************************************************************************)
(* Python values.                                                          *)
(***************************************************************************)
None == [t |-> "None"]
Num(n) == [t |-> "num", v |-> n]
Str(s) == [t |-> "str", v |-> s]
Bool(b) == [t |-> "bool", v |-> b]

\* Python truth value testing
Truthy(x) ==
    CASE x.t = "None" -> FALSE
      [] x.t = "num" -> x.v # 0
      [] x.t = "str" -> x.v # ""
      [] x.t = "bool" -> x.v
      [] OTHER -> TRUE

NoExc == "none"

\* round(ms / 1000, 3), as thousandths of a second, for an integer ms
Round3(n) == (n * 1000 + 500) \div 1000

\* the fallback of `self.default_wait or 1.5`, in thousandths of a second
FALLBACK_WAIT == 1500

\* selenium's WebDriverWait polls every 0.5 s unless told otherwise
POLL_FREQUENCY == 500


(***************************************************************************)
(* The inputs a call is made with.                                         *)
(***************************************************************************)
Selectors == { <<"/", "/", "a">>, <<"#", "a">> }
MsChoices == {None, Num(0), Num(300)}
NegativeChoices == {None, Str("not")}
ConditionNames == {"be checked", "be enabled", "be selected", "be visible",
                   "contain a text", "contain a value", "exist"}
ConditionChoices ==
    {None, Str(""), Str("be present")} \cup {Str(c) : c \in ConditionNames}
DefaultWaitChoices == {None, Num(0), Num(1000)}
Attributes == {"visible", "enabled", "selected", "text", "value"}
\* the sessions a behaviour starts from: the element there or not, with none,
\* all or exactly one of its attributes set
Sessions ==
    {[k \in {"present"} \cup Attributes |->
        IF k = "present" THEN p ELSE k \in A] :
     p \in BOOLEAN,
     A \in {{}, Attributes} \cup {{a} : a \in Attributes}}
\* how long one evaluation of a predicate takes, in thousandths of a second
EvalDurations == {0, 100}
\* by how much time.sleep overshoots
Oversleeps == {0, 100}
\* the inputs of the behaviours that make several calls
ManySelectors ==
    Selectors \cup { <<"/", "a">>, <<>>, <<"a", "/", "/">> }
ByChoices == {None, Str("id")}
FewMs == {None, Num(300)}
FewConditions == {None, Str("be visible"), Str("be present")}
NoPolls == [n |-> 0, seen |-> {}, at |-> 0, dur |-> 0, obs |-> ""]
NoSleeps == [n |-> 0, dur |-> 0]

(***************************************************************************)
(* The expected conditions of behave_webdriver.conditions.                 *)
(***************************************************************************)
Return(v) == [kind |-> "return", v |-> v]
Raise(e) == [kind |-> "raise", e |-> e]
Elem(loc) == [t |-> "elem", by |-> loc[1], sel |-> loc[2]]

\* the session's element query
find_element(drv, loc) ==
    IF drv["present"] THEN Return(Elem(loc)) ELSE Raise("NoSuchElementException")

\* a condition on a located element's attribute, with polarity
AttributeCondition(attr, loc, neg, drv) ==
    LET found == find_element(drv, loc) IN
    IF found.kind = "raise" THEN found
    ELSE IF drv[attr] # neg THEN found ELSE Return(Bool(FALSE))

element_is_present(loc, neg, drv) ==
    LET found == find_element(drv, loc) IN
    IF found.kind = "raise"
    THEN IF neg THEN Return(Bool(TRUE)) ELSE found
    ELSE IF neg THEN Return(Bool(FALSE)) ELSE found

element_is_visible(loc, neg, drv) == AttributeCondition("visible", loc, neg, drv)
element_is_enabled(loc, neg, drv) == AttributeCondition("enabled", loc, neg, drv)
element_is_selected(loc, neg, drv) == AttributeCondition("selected", loc, neg, drv)
element_contains_text(loc, neg, drv) == AttributeCondition("text", loc, neg, drv)
element_contains_value(loc, neg, drv) == AttributeCondition("value", loc, neg, drv)

\* expected(locator, negative=...)(driver)
Apply(factory, loc, neg, drv) ==
    CASE factory = "element_is_present" -> element_is_present(loc, neg, drv)
      [] factory = "element_is_visible" -> element_is_visible(loc, neg, drv)
      [] factory = "element_is_enabled" -> element_is_enabled(loc, neg, drv)
      [] factory = "element_is_selected" -> element_is_selected(loc, neg, drv)
      [] factory = "element_contains_text" -> element_contains_text(loc, neg, drv)
      [] factory = "element_contains_value" -> element_contains_value(loc, neg, drv)

(***************************************************************************)
(* wait_for_element_condition, piece by piece.                             *)
(***************************************************************************)
\* mutant: the configured default wait is not consulted
ResolveSecondsNoOverride(m, dw) ==
    IF ~Truthy(m) THEN FALLBACK_WAIT ELSE Round3(m.v)

\* mutant: only an omitted timeout takes the default (`if ms is None`)
ResolveSecondsZeroIsZero(m, dw) ==
    IF m = None
    THEN IF Truthy(dw) THEN dw.v ELSE FALLBACK_WAIT
    ELSE Round3(m.v)

\* if not ms: seconds = self.default_wait or 1.5; else: round(ms / 1000, 3)
ResolveSeconds(m, dw) ==
    IF ~Truthy(m)
    THEN IF Truthy(dw) THEN dw.v ELSE FALLBACK_WAIT
    ELSE Round3(m.v)

\* mutant: 'be visible' is mapped to the enabled-state factory
condition_text_map_swapped ==
    [c \in ConditionNames |->
        CASE c = "be checked" -> "element_is_selected"
          [] c = "be enabled" -> "element_is_enabled"
          [] c = "be selected" -> "element_is_selected"
          [] c = "be visible" -> "element_is_enabled"
          [] c = "contain a text" -> "element_contains_text"
          [] c = "contain a value" -> "element_contains_value"
          [] c = "exist" -> "element_is_present"]

condition_text_map ==
    [c \in ConditionNames |->
        CASE c = "be checked" -> "element_is_selected"
          [] c = "be enabled" -> "element_is_enabled"
          [] c = "be selected" -> "element_is_selected"
          [] c = "be visible" -> "element_is_visible"
          [] c = "contain a text" -> "element_contains_text"
          [] c = "contain a value" -> "element_contains_value"
          [] c = "exist" -> "element_is_present"]

\* mutant: condition_text_map.get(condition, element_is_present)
LookupWithDefault(name) ==
    IF name \in DOMAIN condition_text_map
    THEN Return(condition_text_map[name])
    ELSE Return("element_is_present")

\* condition_text_map[condition]
Lookup(name) ==
    IF name \in DOMAIN condition_text_map
    THEN Return(condition_text_map[name])
    ELSE Raise("KeyError")

\* mutant: an absent condition waits for visibility
ResolveExpectedVisible(c) ==
    IF Truthy(c) THEN Lookup(c.v) ELSE Return("element_is_visible")

\* if condition: expected = condition_text_map[condition]
\* else: expected = element_is_present
ResolveExpected(c) ==
    IF Truthy(c) THEN Lookup(c.v) ELSE Return("element_is_present")

\* mutant: one slash is taken for an XPath
StartsWithSlash(sel) == Len(sel) >= 1 /\ sel[1] = "/"

\* selector.startswith('//')
StartsWithSlashes(sel) == Len(sel) >= 2 /\ sel[1] = "/" /\ sel[2] = "/"

\* get_element: `if by:` find_element(by, selector), else by the selector's
\* first characters
GetElementLocator(sel, b) ==
    IF Truthy(b) THEN <<b.v, sel>>
    ELSE IF StartsWithSlashes(sel) THEN <<"xpath", sel>>
    ELSE <<"css selector", sel>>

\* locator = (By.XPATH, element) or (By.CSS_SELECTOR, element)
ResolveLocator(sel) ==
    IF StartsWithSlashes(sel) THEN <<"xpath", sel>> ELSE <<"css selector", sel>>

\* mutant: the polarity is not passed on
PassNegativeFalse(n) == FALSE

\* negative=bool(negative)
PassNegative(n) == Truthy(n)

\* mutant: the wait ignores no exception
IgnoredExceptionsNone == {}

\* WebDriverWait's ignored exceptions, by default
IgnoredExceptions == {"NoSuchElementException"}

\* mutant: only an element ends the wait
SucceedsOnlyElement(out) == out.kind = "return" /\ out.v.t = "elem"

\* until: `if value: return value`
Succeeds(out) == out.kind = "return" /\ Truthy(out.v)

\* mutant: the wait gives up when the next sleep would pass the deadline
ExpiredEarly(t, deadline) == t + POLL_FREQUENCY > deadline

\* mutant: the wait gives up at the deadline itself
ExpiredAtDeadline(t, deadline) == t >= deadline

\* until: `if time.time() > end_time: break`
Expired(t, deadline) == t > deadline

\* mutant: no except clause, TimeoutException leaves the call
OnTimeoutPropagates ==
    [pc |-> "raised", result |-> None, exc |-> "TimeoutException"]

\* except TimeoutException: result = None
OnTimeout == [pc |-> "done", result |-> None, exc |-> NoExc]

(***************************************************************************)
(* What the waited condition is about, for the history variables: the      *)
(* attribute a condition phrase names, and the condition it stands for.    *)
(***************************************************************************)
PhraseAttr(c) ==
    IF c.t # "str" THEN "present"
    ELSE CASE c.v \in {"be checked", "be selected"} -> "selected"
           [] c.v = "be enabled" -> "enabled"
           [] c.v = "be visible" -> "visible"
           [] c.v = "contain a text" -> "text"
           [] c.v = "contain a value" -> "value"
           [] OTHER -> "present"

\* the condition of the table: locatable, and in the state the phrase names
Underlying(c, drv) == drv["present"] /\ drv[PhraseAttr(c)]

\* what one poll sees of the session
Observe(c, drv) ==
    IF ~drv["present"] THEN "nolocate"
    ELSE IF drv[PhraseAttr(c)] THEN "true" ELSE "false"

(***************************************************************************)
(* The state machine.                                                      *)
(***************************************************************************)
Init ==
    /\ default_wait \in DefaultWaitChoices
    /\ driver \in Sessions
    /\ pc = "idle"
    /\ element = <<>>
    /\ ms = None
    /\ negative = None
    /\ condition = None
    /\ seconds = 0
    /\ expected = ""
    /\ locator = <<>>
    /\ end_time = 0
    /\ now = 0
    /\ result = None
    /\ exc = NoExc
    /\ polls = NoPolls
    /\ sleeps = NoSleeps
    /\ undLog = <<>>
    /\ timed_out = FALSE
    /\ nchg = 0
    /\ calls = 0
    /\ by = None

\* wait_for_element_condition(element, ms, negative, condition), up to the
\* first evaluation of until()
CallSteps(e, m, n, c) ==
    /\ pc = "idle"
    /\ calls < MaxCalls
    /\ calls' = calls + 1
    /\ by' = None
    /\ element' = e
    /\ ms' = m
    /\ negative' = n
    /\ condition' = c
    /\ seconds' = ResolveSeconds(m, default_wait)
    /\ now' = 0
    /\ result' = None
    /\ polls' = NoPolls
    /\ sleeps' = NoSleeps
    /\ timed_out' = FALSE
    /\ nchg' = 0
    /\ LET r == ResolveExpected(c) IN
         IF r.kind = "raise"
         THEN /\ pc' = "raised"
              /\ exc' = r.e
              /\ expected' = ""
              /\ locator' = <<>>
              /\ end_time' = 0
              /\ undLog' = <<>>
         ELSE /\ pc' = "poll"
              /\ exc' = NoExc
              /\ expected' = r.v
              /\ locator' = ResolveLocator(e)
              /\ end_time' = ResolveSeconds(m, default_wait)
              /\ undLog' = <<[at |-> 0, n |-> 0, und |-> Underlying(c, driver)]>>

\* mutant: the resolved duration is kept in self.default_wait
CallCaching(e, m, n, c) ==
    /\ CallSteps(e, m, n, c)
    /\ default_wait' = Num(ResolveSeconds(m, default_wait))
    /\ UNCHANGED driver

\* the call assigns no field of self and sends the session nothing but queries
Call(e, m, n, c) ==
    /\ CallSteps(e, m, n, c)
    /\ UNCHANGED <<default_wait, driver>>

\* until: value = method(self._driver), taking d thousandths of a second
Poll(d) ==
    /\ pc = "poll"
    /\ LET out == Apply(expected, locator, PassNegative(negative), driver) IN
         /\ polls' = [n |-> polls.n + 1,
                       seen |-> polls.seen \cup {Observe(condition, driver)},
                       at |-> now, dur |-> d,
                       obs |-> Observe(condition, driver)]
         /\ now' = now + d
         /\ IF out.kind = "raise"
            THEN IF out.e \in IgnoredExceptions
                 THEN /\ pc' = "sleep"
                      /\ UNCHANGED <<result, exc>>
                 ELSE /\ pc' = "raised"
                      /\ exc' = out.e
                      /\ UNCHANGED result
            ELSE IF Succeeds(out)
                 THEN /\ pc' = "done"
                      /\ result' = out.v
                      /\ UNCHANGED exc
                 ELSE /\ pc' = "sleep"
                      /\ UNCHANGED <<result, exc>>
    /\ UNCHANGED <<default_wait, driver, element, ms, negative, condition,
                   seconds, expected, locator, end_time, sleeps, undLog,
                   timed_out, nchg, calls, by>>

\* until: time.sleep(self._poll), overshooting by o, then the deadline
\* test; TimeoutException is handled by the caller's except clause
Sleep(o) ==
    /\ pc = "sleep"
    /\ now' = now + POLL_FREQUENCY + o
    /\ sleeps' = [n |-> sleeps.n + 1, dur |-> POLL_FREQUENCY + o]
    /\ IF Expired(now', end_time)
       THEN /\ timed_out' = TRUE
            /\ pc' = OnTimeout.pc
            /\ result' = OnTimeout.result
            /\ exc' = OnTimeout.exc
       ELSE /\ pc' = "poll"
            /\ UNCHANGED <<timed_out, result, exc>>
    /\ UNCHANGED <<default_wait, driver, element, ms, negative, condition,
                   seconds, expected, locator, end_time, polls, undLog, nchg,
                   calls, by>>

\* the page changes under the wait: the element appears or goes, or the
\* attribute the condition reads changes
SessionChange(a) ==
    /\ pc = "sleep"
    /\ nchg < MaxChanges
    /\ a \in {"present", PhraseAttr(condition)}
    /\ nchg' = nchg + 1
    /\ driver' = [driver EXCEPT ![a] = ~@]
    /\ undLog' = IF Underlying(condition, driver') # Underlying(condition, driver)
                 THEN Append(undLog, [at |-> now, n |-> polls.n,
                                      und |-> Underlying(condition, driver')])
                 ELSE undLog
    /\ UNCHANGED <<default_wait, pc, element, ms, negative, condition, seconds,
                   expected, locator, end_time, now, result, exc, polls,
                   sleeps, timed_out, calls, by>>

\* get_element(selector, by): one query of the session
GetElement(sel, b) ==
    /\ pc = "idle"
    /\ calls < MaxCalls
    /\ calls' = calls + 1
    /\ element' = sel
    /\ by' = b
    /\ locator' = GetElementLocator(sel, b)
    /\ LET out == find_element(driver, GetElementLocator(sel, b)) IN
         IF out.kind = "raise"
         THEN /\ pc' = "raised"
              /\ exc' = out.e
              /\ result' = None
         ELSE /\ pc' = "got"
              /\ exc' = NoExc
              /\ result' = out.v
    /\ UNCHANGED <<default_wait, driver, ms, negative, condition, seconds,
                   expected, end_time, now, polls, sleeps, undLog, timed_out,
                   nchg>>

\* the call is over: its locals are gone, the BehaveDriver is as it was
Finish ==
    /\ pc \in {"done", "raised", "got"}
    /\ pc' = "idle"
    /\ element' = <<>>
    /\ ms' = None
    /\ negative' = None
    /\ condition' = None
    /\ seconds' = 0
    /\ expected' = ""
    /\ locator' = <<>>
    /\ end_time' = 0
    /\ now' = 0
    /\ result' = None
    /\ exc' = NoExc
    /\ polls' = NoPolls
    /\ sleeps' = NoSleeps
    /\ undLog' = <<>>
    /\ timed_out' = FALSE
    /\ nchg' = 0
    /\ by' = None
    /\ UNCHANGED <<default_wait, driver, calls>>

Next ==
    \/ \E e \in Selectors, m \in MsChoices, n \in NegativeChoices,
          c \in ConditionChoices : Call(e, m, n, c)
    \/ \E d \in EvalDurations : Poll(d)
    \/ \E o \in Oversleeps : Sleep(o)
    \/ \E a \in {"present"} \cup Attributes : SessionChange(a)

Spec == Init /\ [][Next]_vars

\* several calls, one after the other, on one BehaveDriver
NextCalls ==
    \/ \E e \in ManySelectors, m \in FewMs, n \in NegativeChoices,
          c \in FewConditions : Call(e, m, n, c)
    \/ \E e \in ManySelectors, b \in ByChoices : GetElement(e, b)
    \/ \E d \in EvalDurations : Poll(d)
    \/ \E o \in Oversleeps : Sleep(o)
    \/ \E a \in {"present"} \cup Attributes : SessionChange(a)
    \/ Finish

SpecCalls == Init /\ [][NextCalls]_vars

(***************************************************************************)
(* Properties.                                                             *)
(***************************************************************************)
Started == pc # "idle"
Positive == negative = None
Negated == negative = Str("not")

\* C1: a wait whose deadline passes without the predicate succeeding ends by
\* returning None, with no exception leaving the call; no TimeoutException
\* ever leaves a call, and None is returned only on timeout.
C1_TimeoutReturnsNone ==
    /\ timed_out => (pc = "done" /\ result = None /\ exc = NoExc)
    /\ exc # "TimeoutException"
    /\ (pc = "done" /\ result = None) => timed_out

C1_Witness == timed_out /\ pc = "done" /\ polls.n >= 2

\* C2 as stated: every supplied name outside the seven phrases raises the
\* lookup error before any poll, with no silent default.
C2_AnyOtherNameRaises ==
    (Started /\ condition.t = "str" /\ condition.v \notin ConditionNames)
        => (pc = "raised" /\ exc = "KeyError" /\ polls.n = 0)

\* C2, amended: every supplied name that is not empty and not one of the
\* seven phrases raises KeyError before any poll or sleep and returns nothing;
\* the empty name is taken as absent and waits for presence.
C2_NonEmptyOtherNameRaises ==
    /\ (Started /\ condition.t = "str" /\ condition.v # ""
            /\ condition.v \notin ConditionNames)
        => (pc = "raised" /\ exc = "KeyError" /\ polls.n = 0 /\ sleeps.n = 0
            /\ result = None /\ ~timed_out)
    /\ (Started /\ condition = Str(""))
        => (pc # "raised" /\ expected = "element_is_present")
    /\ pc = "raised" => (condition.t = "str" /\ condition.v \notin ConditionNames)

C2_Witness == pc = "raised" /\ exc = "KeyError" /\ condition = Str("be present")

\* C3: with no condition given, the factory polled is the one the phrase
\* 'exist' maps to, and a returned value is what the presence predicate
\* yields for the call's locator and polarity.
C3_AbsentMeansExist ==
    (Started /\ condition = None)
        => /\ pc # "raised"
           /\ expected = condition_text_map["exist"]
           /\ (pc = "done" /\ ~timed_out)
                => result = element_is_present(locator, negative # None,
                                               driver).v

C3_Witness ==
    /\ condition = None
    /\ pc = "done"
    /\ result = Elem(locator)
    /\ polls.n >= 2

\* C4 as stated: an omitted timeout gives default_wait when one is set and
\* 1500 ms otherwise; a supplied timeout gives that many milliseconds.
C4_OmittedOrSupplied ==
    Started =>
        seconds = IF ms = None
                  THEN IF default_wait # None THEN default_wait.v ELSE 1500
                  ELSE ms.v

\* C4, amended: a timeout that is omitted or 0 gives default_wait when one is
\* set and is not 0, and 1500 ms otherwise; a supplied timeout other than 0
\* gives that many milliseconds, whatever default_wait is; the deadline of the
\* wait is that duration after its start.
C4_OmittedOrZero ==
    /\ Started =>
        seconds = IF ms = None \/ ms = Num(0)
                  THEN IF default_wait # None /\ default_wait # Num(0)
                       THEN default_wait.v
                       ELSE 1500
                  ELSE ms.v
    /\ pc \in {"poll", "sleep", "done"} => end_time = seconds

C4_Witness ==
    /\ ms = None
    /\ default_wait = Num(1000)
    /\ pc = "done"
    /\ seconds = 1000
    /\ timed_out

\* the phrase (or its absence) asks for presence
ForPresence == PhraseAttr(condition) = "present"

\* the last poll saw the underlying condition false: the element located and
\* its attribute not in the named state or, for presence, the element not
\* located
SawFalse ==
    /\ polls.n >= 1
    /\ \/ polls.obs = "false"
       \/ ForPresence /\ polls.obs = "nolocate"

\* C5: under negative polarity, for each condition, a poll that sees the
\* underlying condition false ends the wait at once with a value that is not
\* None (the element; for presence, the 'absent' success), nothing else ends
\* it with a value, and a wait whose polls all saw the condition true returns
\* None after the deadline.
C5_NegativeInverts ==
    (Started /\ Negated /\ pc # "raised") =>
        /\ SawFalse => /\ pc = "done"
                       /\ ~timed_out
                       /\ exc = NoExc
                       /\ result = IF ForPresence THEN Bool(TRUE)
                                   ELSE Elem(locator)
        /\ (pc = "done" /\ result # None) => SawFalse
        /\ (pc = "done" /\ polls.seen = {"true"})
              => (result = None /\ timed_out /\ now > end_time)

C5_Witness ==
    /\ Negated
    /\ condition = Str("be enabled")
    /\ pc = "done"
    /\ result = Elem(locator)
    /\ "true" \in polls.seen

\* C6: with 'exist' or no condition and negative polarity, a wait on a
\* selector that locates nothing ends at its first poll with the 'absent'
\* success value, not None.
C6_AbsentSatisfied ==
    (Negated /\ condition \in {None, Str("exist")} /\ polls.n >= 1
        /\ ~driver["present"] /\ nchg = 0)
        => (pc = "done" /\ result = Bool(TRUE) /\ result # None
            /\ polls.n = 1 /\ sleeps.n = 0 /\ ~timed_out /\ exc = NoExc)

C6_Witness ==
    /\ Negated
    /\ condition = None
    /\ ~driver["present"]
    /\ nchg = 0
    /\ pc = "done"
    /\ result = Bool(TRUE)

\* the condition was false when the wait began, became true once and stayed so
BecameTrue == Len(undLog) = 2 /\ ~undLog[1].und /\ undLog[2].und

\* C7 as stated: a condition false from the start that becomes and stays true
\* at a time before the timeout makes the wait return the element, at an
\* elapsed time from that time on and before the timeout.
C7_TrueBeforeTimeoutReturnsElement ==
    (pc = "done" /\ Positive /\ BecameTrue /\ undLog[2].at < end_time)
        => (result = Elem(locator) /\ now >= undLog[2].at /\ now < end_time)

\* C7, amended: a condition false from the start that becomes and stays true
\* at time t makes the wait return the element exactly when a poll is made
\* after the change; the first such poll returns it, at an elapsed time of at
\* least t, and that poll began no later than the timeout. Otherwise the wait
\* returns None after the timeout.
C7_ReturnsElementIfPolledAfter ==
    (pc = "done" /\ Positive /\ BecameTrue) =>
        IF polls.n > undLog[2].n
        THEN /\ result = Elem(locator)
             /\ ~timed_out
             /\ polls.n = undLog[2].n + 1
             /\ now >= undLog[2].at
             /\ polls.at <= end_time
             /\ now = polls.at + polls.dur
        ELSE /\ result = None
             /\ timed_out
             /\ now > end_time

C7_Witness ==
    /\ pc = "done"
    /\ Positive
    /\ BecameTrue
    /\ condition = Str("be enabled")
    /\ undLog[2].at = 500
    /\ result = Elem(locator)
    /\ now < end_time

\* the condition was false when the wait began and has not changed
NeverMet == Len(undLog) = 1 /\ ~undLog[1].und

\* C8 as stated: a wait on a condition that is never met returns None at an
\* elapsed time between the timeout and one polling interval past it.
C8_NullWithinOneInterval ==
    (pc = "done" /\ Positive /\ NeverMet)
        => (result = None /\ now >= end_time
            /\ now <= end_time + POLL_FREQUENCY)

C8_NeverMetState ==
    (pc \in {"poll", "sleep", "done"} /\ Positive /\ NeverMet) =>
        /\ polls.n <= (end_time \div POLL_FREQUENCY) + 1
        /\ polls.at <= end_time
        /\ pc = "poll" => (now <= end_time /\ polls.n = sleeps.n)
        /\ pc = "sleep" => polls.n = sleeps.n + 1
        /\ pc = "done" => /\ result = None
                          /\ timed_out
                          /\ exc = NoExc
                          /\ now > end_time
                          /\ polls.n = sleeps.n
                          /\ now = polls.at + polls.dur + sleeps.dur

\* C8, amended: a wait on a condition that is never met makes a bounded
\* number of polls and returns None strictly after the timeout; its last poll
\* began no later than the timeout, so the elapsed time passes the timeout by
\* no more than one evaluation plus one polling sleep. Polls and sleeps
\* alternate one at a time and the clock never goes back.
C8_NullAfterTimeout ==
    /\ []C8_NeverMetState
    /\ [][/\ now' >= now
          /\ polls'.n \in {polls.n, polls.n + 1}
          /\ polls'.n = polls.n + 1 => (pc = "poll" /\ sleeps' = sleeps)
          /\ sleeps'.n # sleeps.n => (pc = "sleep" /\ polls' = polls)]_vars

C8_Witness ==
    /\ pc = "done"
    /\ Positive
    /\ NeverMet
    /\ condition = Str("contain a text")
    /\ driver["present"]
    /\ now > end_time + POLL_FREQUENCY

\* C9: under positive polarity, for each condition, a wait that finds the
\* condition true when it begins returns the element from its first poll:
\* one evaluation, no sleep.
C9_FirstPollReturns ==
    (Positive /\ Len(undLog) >= 1 /\ polls.n >= 1 /\ undLog[1].und) =>
        /\ pc = "done"
        /\ result = Elem(locator)
        /\ polls.n = 1
        /\ sleeps.n = 0
        /\ now = polls.dur
        /\ ~timed_out

C9_Witness ==
    /\ Positive
    /\ condition = Str("be visible")
    /\ undLog[1].und
    /\ pc = "done"
    /\ polls.n = 1
    /\ result = Elem(locator)

\* C10: a poll that fails to locate the element never makes the call raise:
\* the wait goes on to sleep and poll again, and can only end in None
\* after the deadline or, when a later poll locates the element and finds
\* the condition true, in the element.
C10_LocateFailureRetried ==
    /\ exc \in {NoExc, "KeyError"}
    /\ pc = "raised" => polls.n = 0
    /\ (polls.n >= 1 /\ polls.obs = "nolocate" /\ ~(Negated /\ ForPresence))
         => \/ pc \in {"sleep", "poll"}
            \/ pc = "done" /\ timed_out /\ result = None
    /\ (Positive /\ "nolocate" \in polls.seen /\ polls.obs = "true")
         => (pc = "done" /\ result = Elem(locator) /\ exc = NoExc)

C10_Witness ==
    /\ Positive
    /\ "nolocate" \in polls.seen
    /\ pc = "done"
    /\ result = Elem(locator)

\* the selector given begins with two slashes
BeginsWithTwoSlashes ==
    Len(element) >= 2 /\ SubSeq(element, 1, 2) = <<"/", "/">>

InferredKind == IF BeginsWithTwoSlashes THEN "xpath" ELSE "css selector"

\* get_element has been called and is over
GetEnded == pc = "got" \/ (pc = "raised" /\ exc = "NoSuchElementException")

\* C11: the wait, and get_element when given no locating method, query the
\* session by XPath when the selector begins with two slashes and by CSS
\* selector otherwise, with the selector as it was given; an element found
\* is the one that query located. A locating method given to get_element is
\* used as it is.
C11_SelectorKind ==
    /\ pc \in {"poll", "sleep", "done"}
         => /\ locator = <<InferredKind, element>>
            /\ (pc = "done" /\ result.t = "elem")
                 => (result.by = InferredKind /\ result.sel = element)
    /\ GetEnded
         => /\ locator = <<IF by = None THEN InferredKind ELSE by.v, element>>
            /\ pc = "got" => result = [t |-> "elem", by |-> locator[1],
                                       sel |-> element]

C11_Witness ==
    /\ pc = "done"
    /\ element = <<"/", "a">>
    /\ result.t = "elem"
    /\ result.by = "css selector"
    /\ result.sel = <<"/", "a">>

\* no call is under way and nothing of an earlier call is left
Fresh ==
    /\ element = <<>>
    /\ ms = None
    /\ negative = None
    /\ condition = None
    /\ by = None
    /\ seconds = 0
    /\ expected = ""
    /\ locator = <<>>
    /\ end_time = 0
    /\ now = 0
    /\ result = None
    /\ exc = NoExc
    /\ polls = NoPolls
    /\ sleeps = NoSleeps
    /\ undLog = <<>>
    /\ ~timed_out

\* C12: no step of a wait, whatever its outcome, changes default_wait, and
\* the session changes only by the page's own changes; between calls the
\* BehaveDriver holds nothing of the call before, so that every call starts
\* from the state a new object with that session starts from; an element
\* returned is one the session reports at that poll.
C12_ReadOnlyStateless ==
    /\ [](pc = "idle" => Fresh)
    /\ []((pc = "done" /\ result.t = "elem") => driver["present"])
    /\ [][/\ default_wait' = default_wait
          /\ driver' # driver => (pc = "sleep" /\ nchg' = nchg + 1)]_vars

C12_Witness ==
    /\ calls = 2
    /\ pc = "done"
    /\ result = Elem(locator)
    /\ nchg = 0
    /\ driver \notin Sessions

====
